---------------------------- MODULE Spec2Model ----------------------------
(***************************************************************************)
(* A model of src/tfidf.rs: the TF-IDF calculator (tokenize,               *)
(* process_document, calculate_tfidf) and the pipeline of main (chunking   *)
(* of the input lines, scoring, ranked report, summary).                   *)
(*                                                                         *)
(* Text is a sequence of characters, a character is a one-entry string.    *)
(* A HashMap is a function whose DOMAIN is the key set.                    *)
(***************************************************************************)
EXTENDS Integers, Sequences, FiniteSets, TLC

(***************************************************************************)
(* Characters.  The tables cover ASCII and U+0130, the one character of    *)
(* the model whose lowercase form is two characters: 'i' followed by the   *)
(* combining dot U+0307, which is not alphanumeric.                        *)
(***************************************************************************)
UpperCase ==
    << "A", "B", "C", "D", "E", "F", "G", "H", "I", "J", "K", "L", "M",
       "N", "O", "P", "Q", "R", "S", "T", "U", "V", "W", "X", "Y", "Z" >>

LowerCase ==
    << "a", "b", "c", "d", "e", "f", "g", "h", "i", "j", "k", "l", "m",
       "n", "o", "p", "q", "r", "s", "t", "u", "v", "w", "x", "y", "z" >>

Digits == { "0", "1", "2", "3", "4", "5", "6", "7", "8", "9" }

I_DOT == "U+0130"

COMBINING_DOT == "U+0307"

Range(s) == { s[i] : i \in DOMAIN s }

\* char::is_whitespace
is_whitespace(c) == c \in { " ", "\t", "\n", "\r" }

\* char::is_alphanumeric
is_alphanumeric(c) ==
    c \in Range(UpperCase) \cup Range(LowerCase) \cup Digits \cup { I_DOT }

\* The lowercase form of one character, as str::to_lowercase produces it.
lower_char(c) ==
    IF c \in Range(UpperCase)
    THEN << LowerCase[CHOOSE i \in DOMAIN UpperCase : UpperCase[i] = c] >>
    ELSE IF c = I_DOT THEN << "i", COMBINING_DOT >>
    ELSE << c >>

RECURSIVE to_lowercase(_)
\* str::to_lowercase: every character replaced by its lowercase form.
to_lowercase(word) ==
    IF word = << >> THEN << >>
    ELSE lower_char(Head(word)) \o to_lowercase(Tail(word))

\* .chars().filter(|c| c.is_alphanumeric()).collect::<String>()
filter_alphanumeric(word) == SelectSeq(word, is_alphanumeric)

\* str::split_whitespace: the maximal runs of non-whitespace characters of
\* text, in order.  A word starts where a non-whitespace character has no
\* non-whitespace predecessor and ends where it has no such successor; the
\* k-th word runs from the k-th start to the k-th end.
split_whitespace(text) ==
    LET inword(i) == ~ is_whitespace(text[i])
        is_start(i) == inword(i) /\ (i = 1 \/ ~ inword(i - 1))
        is_end(i) == inword(i) /\ (i = Len(text) \/ ~ inword(i + 1))
        positions == [ i \in DOMAIN text |-> i ]
        starts == SelectSeq(positions, is_start)
        ends == SelectSeq(positions, is_end)
    IN  [ k \in DOMAIN starts |-> SubSeq(text, starts[k], ends[k]) ]

\* normalize with the two steps exchanged: filter, then lowercase
normalize_filter_first(word) == to_lowercase(filter_alphanumeric(word))

\* The closure of the .map(...) in tokenize: lowercase, then keep the
\* alphanumeric characters.
normalize(word) == filter_alphanumeric(to_lowercase(word))

\* tokenize without `.filter(|word| !word.is_empty())`
tokenize_keep_empty(txt) ==
    LET words == split_whitespace(txt)
    IN  [ k \in DOMAIN words |-> normalize(words[k]) ]

\* TfidfCalculator::tokenize
tokenize(text) ==
    LET words == split_whitespace(text)
        mapped == [ k \in DOMAIN words |-> normalize(words[k]) ]
    IN  SelectSeq(mapped, LAMBDA w : w # << >>)


(***************************************************************************)
(* f64 arithmetic of calculate_tfidf.  The quotient of two counts is kept  *)
(* as an exact fraction and a logarithm ln(num/den) by its argument, so    *)
(* tf * ln(num/den) is ln(num^tf / den^tf) and two scores compare as their *)
(* arguments do.  Division by zero yields the IEEE values: 0/0 is NaN,     *)
(* x/0 is +inf, and ln(0) is -inf.                                         *)
(***************************************************************************)
RECURSIVE gcd(_, _)
gcd(a, b) == IF b = 0 THEN a ELSE gcd(b, a % b)

RECURSIVE pow(_, _)
pow(b, e) == IF e = 0 THEN 1 ELSE b * pow(b, e - 1)

NaN == [ kind |-> "nan", num |-> 0, den |-> 0 ]

PosInf == [ kind |-> "inf", num |-> 1, den |-> 0 ]

NegInf == [ kind |-> "neginf", num |-> 0, den |-> 1 ]

\* a as f64 / b as f64, for counts a and b
f64_div(a, b) ==
    IF b = 0
    THEN IF a = 0 THEN NaN ELSE PosInf
    ELSE [ kind |-> "ratio", num |-> a \div gcd(a, b), den |-> b \div gcd(a, b) ]

\* f64::ln of a quotient
f64_ln(x) ==
    IF x.kind = "ratio"
    THEN IF x.num = 0 THEN NegInf
         ELSE [ kind |-> "ln", num |-> x.num, den |-> x.den ]
    ELSE x

\* tf * idf, for a count tf and a logarithm idf
f64_mul(tf, idf) ==
    IF idf.kind = "ln"
    THEN [ kind |-> "ln", num |-> pow(idf.num, tf), den |-> pow(idf.den, tf) ]
    ELSE IF tf = 0 THEN NaN ELSE idf

\* f64::partial_cmp: None when either side is NaN
partial_cmp(a, b) ==
    LET rank(x) == IF x.kind = "neginf" THEN 0 ELSE IF x.kind = "inf" THEN 2 ELSE 1
    IN  IF a.kind = "nan" \/ b.kind = "nan" THEN "None"
        ELSE IF rank(a) # rank(b)
             THEN IF rank(a) < rank(b) THEN "Less" ELSE "Greater"
        ELSE IF rank(a) # 1 THEN "Equal"
        ELSE IF a.num * b.den < b.num * a.den THEN "Less"
        ELSE IF a.num * b.den > b.num * a.den THEN "Greater"
        ELSE "Equal"

(***************************************************************************)
(* HashMap operations.                                                     *)
(***************************************************************************)
\* *map.entry(key).or_insert(0) += 1
entry_increment(map, key) ==
    IF key \in DOMAIN map
    THEN [ map EXCEPT ![key] = @ + 1 ]
    ELSE [ k \in DOMAIN map \cup { key } |-> IF k = key THEN 1 ELSE map[k] ]

\* map.insert(key, value)
insert(map, key, value) ==
    [ k \in DOMAIN map \cup { key } |-> IF k = key THEN value ELSE map[k] ]

EmptyMap == [ k \in { } |-> 0 ]

RECURSIVE count_loop(_, _)
\* The first loop of process_document, for term_freq.
count_loop(tokens, term_freq) ==
    IF tokens = << >> THEN term_freq
    ELSE count_loop(Tail(tokens), entry_increment(term_freq, Head(tokens)))

RECURSIVE seen_loop(_, _)
\* The first loop of process_document, for seen_terms.
seen_loop(tokens, seen_terms) ==
    IF tokens = << >> THEN seen_terms
    ELSE seen_loop(Tail(tokens), insert(seen_terms, Head(tokens), TRUE))

\* The second loop of process_document: one increment of document_frequency
\* for every key of seen_terms.
df_loop(df, seen_terms) ==
    [ t \in DOMAIN df \cup DOMAIN seen_terms |->
        IF t \in DOMAIN seen_terms
        THEN (IF t \in DOMAIN df THEN df[t] ELSE 0) + 1
        ELSE df[t] ]

RECURSIVE df_per_token(_, _)
\* document_frequency incremented once for every token, not for every key
\* of seen_terms
df_per_token(df, tokens) ==
    IF tokens = << >> THEN df
    ELSE df_per_token(entry_increment(df, Head(tokens)), Tail(tokens))


(***************************************************************************)
(* TfidfCalculator.  A calculator is a record of the three fields of the   *)
(* struct.                                                                 *)
(***************************************************************************)
\* TfidfCalculator::new
new ==
    [ document_frequency |-> EmptyMap,
      term_frequencies |-> << >>,
      n_documents |-> 0 ]

\* process_document whose second loop runs over the tokens
process_document_df_per_token(self, text) ==
    LET tokens == tokenize(text)
    IN  [ document_frequency |-> df_per_token(self.document_frequency, tokens),
          term_frequencies |->
              Append(self.term_frequencies, count_loop(tokens, EmptyMap)),
          n_documents |-> self.n_documents + 1 ]

\* process_document returning early on a text without tokens
process_document_skip_empty(self, text) ==
    LET tokens == tokenize(text)
    IN  IF tokens = << >> THEN self
        ELSE [ document_frequency |->
                   df_loop(self.document_frequency, seen_loop(tokens, EmptyMap)),
               term_frequencies |->
                   Append(self.term_frequencies, count_loop(tokens, EmptyMap)),
               n_documents |-> self.n_documents + 1 ]

\* TfidfCalculator::process_document: the calculator after the call
process_document(self, text) ==
    LET tokens == tokenize(text)
        term_freq == count_loop(tokens, EmptyMap)
        seen_terms == seen_loop(tokens, EmptyMap)
    IN  [ document_frequency |-> df_loop(self.document_frequency, seen_terms),
          term_frequencies |-> Append(self.term_frequencies, term_freq),
          n_documents |-> self.n_documents + 1 ]

\* tfidf with the smoothed quotient (n_documents + 1) / df
tfidf_smoothed(freq, n, df) == f64_mul(freq, f64_ln(f64_div(n + 1, df)))

\* The body of the inner loop of calculate_tfidf: tf * ln(n_documents / df)
tfidf(freq, n, df) == f64_mul(freq, f64_ln(f64_div(n, df)))

\* calculate_tfidf with an entry for every term of the corpus in every table
calculate_tfidf_zero_fill(self) ==
    [ d \in 1..Len(self.term_frequencies) |->
        [ term \in DOMAIN self.document_frequency |->
            tfidf(IF term \in DOMAIN self.term_frequencies[d]
                  THEN self.term_frequencies[d][term] ELSE 0,
                  self.n_documents, self.document_frequency[term]) ] ]

\* TfidfCalculator::calculate_tfidf: one score table per document, with an
\* entry for every term of the document that document_frequency holds
calculate_tfidf(self) ==
    [ d \in 1..Len(self.term_frequencies) |->
        LET doc_tf == self.term_frequencies[d]
        IN  [ term \in { t \in DOMAIN doc_tf : t \in DOMAIN self.document_frequency } |->
                tfidf(doc_tf[term], self.n_documents, self.document_frequency[term]) ] ]

(***************************************************************************)
(* The ranking of main: doc_scores.iter().collect(), sort_by, take(10).    *)
(***************************************************************************)
TopK == 10

MaxRot == 3

Min(a, b) == IF a < b THEN a ELSE b

RECURSIVE canon(_)
\* One fixed enumeration of a key set.
canon(S) ==
    IF S = { } THEN << >>
    ELSE LET x == CHOOSE y \in S : TRUE IN << x >> \o canon(S \ { x })

rotate(s, r) == [ i \in DOMAIN s |-> s[((i - 1 + r) % Len(s)) + 1] ]

reverse(s) == [ i \in DOMAIN s |-> s[Len(s) + 1 - i] ]

\* HashMap::iter: the order is unspecified.  The model takes the rotations
\* by fewer than MaxRot places of one enumeration of the keys and, for up to
\* MaxRot keys, of its reverse: every order of up to three keys, a sample of
\* the orders of more.
iteration_orders(S) ==
    IF S = { } THEN { << >> }
    ELSE LET R == 0..(Min(Cardinality(S), MaxRot) - 1)
         IN  { rotate(canon(S), r) : r \in R }
               \cup IF Cardinality(S) <= MaxRot
                    THEN { rotate(reverse(canon(S)), r) : r \in R }
                    ELSE { }

\* The comparator of the sort: |a, b| b.1.partial_cmp(a.1), before unwrap
compare(a, b) == partial_cmp(b[2], a[2])

RECURSIVE insert_sorted(_, _)
\* x placed behind every entry that does not compare Greater than it
insert_sorted(s, x) ==
    IF s = << >> THEN << x >>
    ELSE IF compare(Head(s), x) = "Greater" THEN << x >> \o s
    ELSE << Head(s) >> \o insert_sorted(Tail(s), x)

RECURSIVE sort_from(_, _, _)
sort_from(v, i, acc) ==
    IF i > Len(v) THEN acc ELSE sort_from(v, i + 1, insert_sorted(acc, v[i]))

\* slice::sort_by with the comparator above: a stable sort
sort_by(v) == sort_from(v, 1, << >>)

\* unwrap() of a None: a sort of two or more entries compares every entry
sort_panics(v) ==
    /\ Len(v) >= 2
    /\ \E i \in DOMAIN v : v[i][2].kind = "nan"

\* Iterator::take
take(v, k) == SubSeq(v, 1, Min(k, Len(v)))

\* ranked without the sort
ranked_unsorted(scores) == take(scores, TopK)

\* scores.sort_by(...) and then scores.iter().take(10)
ranked(scores) == take(sort_by(scores), TopK)


(***************************************************************************)
(* State.                                                                  *)
(***************************************************************************)
VARIABLES
    lines,              \* the input file: what reader.lines() yields
    chunk,              \* the value of LINES_PER_DOCUMENT of the build
    pc,                 \* the position of main, or of the caller
    next_line,          \* the position of the reader: the next line's index
    current_document,   \* main's current_document
    line_count,         \* main's line_count
    calculator,         \* main's calculator
    ingested,           \* the text of every process_document call, in order
    tfidf_scores,       \* main's tfidf_scores, the result of calculate_tfidf
    doc_idx,            \* the index of the report loop
    report,             \* printed so far: one block per document
    summary,            \* printed so far: the processing summary
    text,               \* the argument of a tokenize call
    tokens,             \* the result of that call
    retokens            \* the result of tokenizing the joined tokens

vars ==
    << lines, chunk, pc, next_line, current_document, line_count, calculator,
       ingested, tfidf_scores, doc_idx, report, summary, text, tokens, retokens >>

main_vars ==
    << lines, chunk, next_line, current_document, line_count, doc_idx, report,
       summary >>

tok_vars == << text, tokens, retokens >>

(***************************************************************************)
(* Inputs.                                                                 *)
(***************************************************************************)
LINES_PER_DOCUMENT == 1000

MaxLines == 3

MaxChunk == 2

MaxDocs == 3

MaxTextLen == 4

ExampleLines == 2500

BoundedSeq(S, n) == UNION { [1..k -> S] : k \in 0..n }

RECURSIVE join(_, _)
\* The words of a sequence with sep between neighbours.
join(words, sep) ==
    IF words = << >> THEN << >>
    ELSE IF Len(words) = 1 THEN words[1]
    ELSE words[1] \o sep \o join(Tail(words), sep)

LineBlank == << >>

LineA == << "A", " ", "a", "," >>

LineB == << "b", " ", "!", " ", "a" >>

\* twelve distinct terms, the first of them twice
LineLong == join([ i \in 1..12 |-> << LowerCase[i] >> ] \o << << "a" >> >>, << " " >>)

LineMixed == << "A", " ", "b", ",", " ", "a", " ", "!" >>

LineChoices == { LineBlank, LineMixed, LineLong }

\* The lines of the 2500-line input: blank but for a few.
ExampleLine(i) ==
    IF i % 700 = 1 THEN LineLong
    ELSE IF i % 1000 = 500
         THEN << LineA, LineB, << "B", "\t", "1", "." >> >>[((i \div 1000) % 3) + 1]
    ELSE LineBlank

ExampleInput == [ i \in 1..ExampleLines |-> ExampleLine(i) ]

ApiTexts ==
    { << >>, LineA, LineB, << ",", " ", "!" >>, << "b", "\n", "b", "\t", "c" >> }

HelloWorld ==
    << "H", "e", "l", "l", "o", ",", " ", "W", "o", "r", "l", "d", "!", " ",
       "1", "2", "3" >>

\* "A, a !" and, after a tab, U+0130 with a comma
MixedText == << "A", ",", " ", "a", " ", "!", "\t", I_DOT, "," >>

TokChars == { "A", "b", "1", ",", " ", "\n", I_DOT }

(***************************************************************************)
(* main.                                                                   *)
(***************************************************************************)
\* The state of main after `let mut line_count = 0`, for the file `input`
\* and a build with LINES_PER_DOCUMENT = size.
MainStart(input, size) ==
    /\ lines = input
    /\ chunk = size
    /\ pc = "read"
    /\ next_line = 1
    /\ current_document = << >>
    /\ line_count = 0
    /\ calculator = new
    /\ ingested = << >>
    /\ tfidf_scores = << >>
    /\ doc_idx = 0
    /\ report = << >>
    /\ summary = << >>
    /\ text = << >>
    /\ tokens = << >>
    /\ retokens = << >>

Init ==
    \/ \E input \in BoundedSeq(LineChoices, MaxLines), size \in 1..MaxChunk :
          MainStart(input, size)
    \/ MainStart(ExampleInput, LINES_PER_DOCUMENT)

\* MainReadLine with the test `line_count == LINES_PER_DOCUMENT` made before
\* the increment of line_count
MainReadLineOffByOne ==
    /\ pc = "read"
    /\ next_line <= Len(lines)
    /\ next_line' = next_line + 1
    /\ LET document == current_document \o lines[next_line] \o << "\n" >>
       IN  IF line_count = chunk
           THEN /\ calculator' = process_document(calculator, document)
                /\ ingested' = Append(ingested, document)
                /\ current_document' = << >>
                /\ line_count' = 0
           ELSE /\ current_document' = document
                /\ line_count' = line_count + 1
                /\ UNCHANGED << calculator, ingested >>
    /\ UNCHANGED << lines, chunk, pc, tfidf_scores, doc_idx, report, summary >>
    /\ UNCHANGED tok_vars

\* One iteration of `for line in reader.lines()`.
MainReadLine ==
    /\ pc = "read"
    /\ next_line <= Len(lines)
    /\ next_line' = next_line + 1
    /\ LET document == current_document \o lines[next_line] \o << "\n" >>
       IN  IF line_count + 1 = chunk
           THEN /\ calculator' = process_document(calculator, document)
                /\ ingested' = Append(ingested, document)
                /\ current_document' = << >>
                /\ line_count' = 0
           ELSE /\ current_document' = document
                /\ line_count' = line_count + 1
                /\ UNCHANGED << calculator, ingested >>
    /\ UNCHANGED << lines, chunk, pc, tfidf_scores, doc_idx, report, summary >>
    /\ UNCHANGED tok_vars

\* MainRemainder without the process_document call
MainRemainderDropped ==
    /\ pc = "read"
    /\ next_line > Len(lines)
    /\ pc' = "score"
    /\ UNCHANGED << lines, chunk, next_line, current_document, line_count,
                    calculator, ingested, tfidf_scores, doc_idx, report, summary >>
    /\ UNCHANGED tok_vars

\* MainRemainder without the test of current_document
MainRemainderAlways ==
    /\ pc = "read"
    /\ next_line > Len(lines)
    /\ calculator' = process_document(calculator, current_document)
    /\ ingested' = Append(ingested, current_document)
    /\ pc' = "score"
    /\ UNCHANGED << lines, chunk, next_line, current_document, line_count,
                    tfidf_scores, doc_idx, report, summary >>
    /\ UNCHANGED tok_vars

\* The end of the input: `if !current_document.is_empty()`.
MainRemainder ==
    /\ pc = "read"
    /\ next_line > Len(lines)
    /\ IF current_document # << >>
       THEN /\ calculator' = process_document(calculator, current_document)
            /\ ingested' = Append(ingested, current_document)
       ELSE UNCHANGED << calculator, ingested >>
    /\ pc' = "score"
    /\ UNCHANGED << lines, chunk, next_line, current_document, line_count,
                    tfidf_scores, doc_idx, report, summary >>
    /\ UNCHANGED tok_vars

\* let tfidf_scores = calculator.calculate_tfidf()
MainCalculate ==
    /\ pc = "score"
    /\ tfidf_scores' = calculate_tfidf(calculator)
    /\ pc' = "report"
    /\ UNCHANGED << lines, chunk, next_line, current_document, line_count,
                    calculator, ingested, doc_idx, report, summary >>
    /\ UNCHANGED tok_vars

\* What one iteration of the report loop prints for the score table
\* doc_scores, iterated in the order `order`.
report_block(doc_scores, order) ==
    LET scores == [ i \in DOMAIN order |-> << order[i], doc_scores[order[i]] >> ]
    IN  [ doc |-> doc_idx + 1,
          first_line |-> doc_idx * chunk + 1,
          last_line |-> (doc_idx + 1) * chunk,
          panicked |-> sort_panics(scores),
          rows |-> IF sort_panics(scores) THEN << >> ELSE ranked(scores) ]

\* One iteration of `for (doc_idx, doc_scores) in tfidf_scores.iter().enumerate()`.
MainReportDocument ==
    /\ pc = "report"
    /\ doc_idx < Len(tfidf_scores)
    /\ \E order \in iteration_orders(DOMAIN tfidf_scores[doc_idx + 1]) :
          LET block == report_block(tfidf_scores[doc_idx + 1], order)
          IN  /\ report' = Append(report, block)
              /\ pc' = IF block.panicked THEN "panicked" ELSE "report"
    /\ doc_idx' = doc_idx + 1
    /\ UNCHANGED << lines, chunk, next_line, current_document, line_count,
                    calculator, ingested, tfidf_scores, summary >>
    /\ UNCHANGED tok_vars

\* The processing summary, after the report loop.
MainSummary ==
    /\ pc = "report"
    /\ doc_idx = Len(tfidf_scores)
    /\ summary' =
          << [ documents |-> calculator.n_documents,
               unique_terms |-> Cardinality(DOMAIN calculator.document_frequency),
               lines_per_document |-> chunk ] >>
    /\ pc' = "done"
    /\ UNCHANGED << lines, chunk, next_line, current_document, line_count,
                    calculator, ingested, tfidf_scores, doc_idx, report >>
    /\ UNCHANGED tok_vars

Next ==
    \/ MainReadLine
    \/ MainRemainder
    \/ MainCalculate
    \/ MainReportDocument
    \/ MainSummary

Spec == Init /\ [][Next]_vars


(***************************************************************************)
(* The calculator called directly: any sequence of process_document calls  *)
(* on a new calculator, with calculate_tfidf called at any point.          *)
(***************************************************************************)
InitCalc ==
    /\ lines = << >>
    /\ chunk = LINES_PER_DOCUMENT
    /\ pc = "calls"
    /\ next_line = 1
    /\ current_document = << >>
    /\ line_count = 0
    /\ calculator = new
    /\ ingested = << >>
    /\ tfidf_scores = << >>
    /\ doc_idx = 0
    /\ report = << >>
    /\ summary = << >>
    /\ text = << >>
    /\ tokens = << >>
    /\ retokens = << >>

\* calculator.process_document(&document)
CallProcessDocument ==
    /\ pc \in { "calls", "scored" }
    /\ calculator.n_documents < MaxDocs
    /\ \E document \in ApiTexts :
          /\ calculator' = process_document(calculator, document)
          /\ ingested' = Append(ingested, document)
    /\ pc' = "calls"
    /\ UNCHANGED << tfidf_scores, main_vars, tok_vars >>

\* calculator.calculate_tfidf(); pc = "scored" while the result is that of
\* the calculator as it is
CallCalculateTfidf ==
    /\ pc = "calls"
    /\ tfidf_scores' = calculate_tfidf(calculator)
    /\ pc' = "scored"
    /\ UNCHANGED << calculator, ingested, main_vars, tok_vars >>

NextCalc ==
    \/ CallProcessDocument
    \/ CallCalculateTfidf

SpecCalc == InitCalc /\ [][NextCalc]_vars

(***************************************************************************)
(* tokenize called on any text of up to MaxTextLen characters of TokChars, *)
(* and on "Hello, World! 123"; then called again on its own result, joined *)
(* with a whitespace character.                                            *)
(***************************************************************************)
InitTok ==
    /\ text \in BoundedSeq(TokChars, MaxTextLen) \cup { HelloWorld, MixedText }
    /\ tokens = << >>
    /\ retokens = << >>
    /\ pc = "tokenize"
    /\ lines = << >>
    /\ chunk = LINES_PER_DOCUMENT
    /\ next_line = 1
    /\ current_document = << >>
    /\ line_count = 0
    /\ calculator = new
    /\ ingested = << >>
    /\ tfidf_scores = << >>
    /\ doc_idx = 0
    /\ report = << >>
    /\ summary = << >>

\* Self::tokenize(text)
CallTokenize ==
    /\ pc = "tokenize"
    /\ tokens' = tokenize(text)
    /\ pc' = "retokenize"
    /\ UNCHANGED << text, retokens, calculator, ingested, tfidf_scores, main_vars >>

\* Self::tokenize of the tokens joined with a whitespace character
CallRetokenize ==
    /\ pc = "retokenize"
    /\ \E sep \in { " ", "\t", "\n", "\r" } :
          retokens' = tokenize(join(tokens, << sep >>))
    /\ pc' = "tokenized"
    /\ UNCHANGED << text, tokens, calculator, ingested, tfidf_scores, main_vars >>

NextTok ==
    \/ CallTokenize
    \/ CallRetokenize

SpecTok == InitTok /\ [][NextTok]_vars


(***************************************************************************)
(* Properties.                                                             *)
(***************************************************************************)
\* The documents whose term-frequency table holds t with a count >= 1.
documents_containing(t) ==
    { d \in DOMAIN calculator.term_frequencies :
        /\ t \in DOMAIN calculator.term_frequencies[d]
        /\ calculator.term_frequencies[d][t] >= 1 }

\* Every term of any table of the calculator.
all_terms ==
    DOMAIN calculator.document_frequency
      \cup UNION { DOMAIN calculator.term_frequencies[d] :
                     d \in DOMAIN calculator.term_frequencies }

\* C1: after any sequence of process_document calls on a new calculator,
\* document_frequency[t] is, for every term t, the number of per-document
\* tables in which t has a count >= 1, and it is at most n_documents.
C1_DocumentFrequency ==
    \A t \in all_terms :
        /\ t \in DOMAIN calculator.document_frequency
        /\ calculator.document_frequency[t] = Cardinality(documents_containing(t))
        /\ calculator.document_frequency[t] <= calculator.n_documents

\* C1: a term that occurs several times in one document and in no other,
\* among two or more documents.
C1_Witness ==
    /\ calculator.n_documents >= 2
    /\ \E t \in all_terms, d \in DOMAIN calculator.term_frequencies :
          /\ documents_containing(t) = { d }
          /\ calculator.term_frequencies[d][t] >= 2

\* The positions of the newline characters of a text, in order.
newlines(document) ==
    SelectSeq([ j \in DOMAIN document |-> j ], LAMBDA j : document[j] = "\n")

\* document is lines[a], ..., lines[b], each followed by a newline (no line
\* holds a newline itself).
is_lines(document, a, b) ==
    LET nl == newlines(document)
    IN  /\ Len(nl) = b - a + 1
        /\ document = << >> \/ document[Len(document)] = "\n"
        /\ \A k \in DOMAIN nl :
              SubSeq(document, IF k = 1 THEN 1 ELSE nl[k - 1] + 1, nl[k] - 1)
                = lines[a + k - 1]

\* C2: main ingests ceil(L / N) documents, in input order; document i is
\* exactly the lines (i-1)*N+1 .. min(i*N, L), while main reads and when the
\* loop and the remainder are done (pc = "score"); while reading, the
\* documents ingested are those of the full groups read so far.
C2_Chunking ==
    /\ Len(ingested) = calculator.n_documents
    /\ pc \in { "read", "score" } =>
          \A i \in DOMAIN ingested :
              is_lines(ingested[i], (i - 1) * chunk + 1, Min(i * chunk, Len(lines)))
    /\ pc = "read" => calculator.n_documents = (next_line - 1) \div chunk
    /\ pc # "read" =>
          calculator.n_documents = (Len(lines) + chunk - 1) \div chunk

\* C2: main has run to its end on an input of more than one group of lines
\* whose last group is a partial one, and that group is the last document.
C2_Witness ==
    /\ pc = "done"
    /\ chunk >= 2
    /\ Len(lines) > chunk
    /\ Len(lines) % chunk # 0
    /\ calculator.n_documents = (Len(lines) \div chunk) + 1
    /\ Len(newlines(ingested[Len(ingested)])) = Len(lines) % chunk

\* The end of the run on the 2500-line input with chunks of 1000 lines:
\* 3 documents, the third of them the lines from 2001 to the last.
C2_Example ==
    /\ pc = "done"
    /\ chunk = LINES_PER_DOCUMENT
    /\ Len(lines) = ExampleLines
    /\ calculator.n_documents = 3
    /\ Len(newlines(ingested[3])) = Len(lines) - 2 * LINES_PER_DOCUMENT

\* s is the number tf * ln(n / df): s is ln(num / den) with
\* num / den = n^tf / df^tf.
is_tf_ln(s, tf, n, df) ==
    /\ s.kind = "ln"
    /\ s.num * pow(df, tf) = s.den * pow(n, tf)

\* s is the number 0, that is ln(1).
is_zero(s) == s.kind = "ln" /\ s.num = s.den

\* C3: once main has the scores, the score of every term of every document
\* is tf_count * ln(n_documents / document_frequency[term]) for the final
\* n_documents and document_frequency, and it is 0 when the term occurs in
\* every document.
C3_Score ==
    pc \in { "report", "done" } =>
        \A d \in DOMAIN calculator.term_frequencies :
            \A t \in DOMAIN calculator.term_frequencies[d] :
                /\ d \in DOMAIN tfidf_scores
                /\ t \in DOMAIN tfidf_scores[d]
                /\ t \in DOMAIN calculator.document_frequency
                /\ is_tf_ln(tfidf_scores[d][t], calculator.term_frequencies[d][t],
                            calculator.n_documents, calculator.document_frequency[t])
                /\ calculator.document_frequency[t] = calculator.n_documents
                      => is_zero(tfidf_scores[d][t])

\* C3: three documents scored, with a term that occurs once in each of them
\* and scores 0, a term that occurs more than once in a document and in
\* every document, and a term with a score above 0.
C3_Witness ==
    /\ pc = "done"
    /\ calculator.n_documents = 3
    /\ \E t \in all_terms :
          \A d \in 1..3 : /\ t \in DOMAIN calculator.term_frequencies[d]
                          /\ calculator.term_frequencies[d][t] = 1
                          /\ is_zero(tfidf_scores[d][t])
    /\ \E t \in all_terms :
          /\ calculator.document_frequency[t] = 3
          /\ \E d \in 1..3 : calculator.term_frequencies[d][t] >= 2
    /\ \E d \in 1..3 : \E t \in DOMAIN tfidf_scores[d] :
          tfidf_scores[d][t].num > tfidf_scores[d][t].den

\* The (document, term) pairs for which calculate_tfidf evaluates
\* n_documents / df.
divisions_evaluated(self) ==
    { << d, t >> \in (DOMAIN self.term_frequencies) \X (DOMAIN self.document_frequency) :
        t \in DOMAIN self.term_frequencies[d] }

\* C4: on an empty input main never calls process_document, the calculator
\* stays as new, calculate_tfidf returns the empty sequence and evaluates no
\* division, no document block is printed and the summary counts are 0.
C4_EmptyInput ==
    lines = << >> =>
        /\ calculator = new
        /\ ingested = << >>
        /\ calculator.n_documents = 0
        /\ calculator.term_frequencies = << >>
        /\ DOMAIN calculator.document_frequency = { }
        /\ divisions_evaluated(calculator) = { }
        /\ tfidf_scores = << >>
        /\ report = << >>
        /\ pc # "panicked"
        /\ pc = "done" =>
              /\ Len(summary) = 1
              /\ summary[1].documents = 0
              /\ summary[1].unique_terms = 0

\* C4: main has run to its end on the empty input.
C4_Witness ==
    /\ lines = << >>
    /\ pc = "done"
    /\ summary # << >>


RECURSIVE scan(_, _, _, _)
\* The terms of a text read in one pass over its characters from position
\* i: cur is the term of the word being read, out the terms completed.
scan(txt, i, cur, out) ==
    LET closed == IF cur = << >> THEN out ELSE Append(out, cur)
    IN  IF i > Len(txt) THEN closed
        ELSE IF is_whitespace(txt[i]) THEN scan(txt, i + 1, << >>, closed)
        ELSE scan(txt, i + 1,
                  cur \o SelectSeq(lower_char(txt[i]), is_alphanumeric), out)

\* c is alphanumeric and is its own lowercase form.
is_lowercase_alphanumeric(c) ==
    /\ is_alphanumeric(c)
    /\ lower_char(c) = << c >>
    /\ c \notin Range(UpperCase) \cup { I_DOT }

\* C5: tokenize returns, in word order and with duplicates, the lowercased
\* alphanumeric-only form of every whitespace-delimited word that has one;
\* every token is non-empty, lowercase and alphanumeric; "Hello, World! 123"
\* gives hello, world, 123; a text without an alphanumeric character gives
\* no token.
C5_Tokenize ==
    pc \in { "retokenize", "tokenized" } =>
        /\ tokens = scan(text, 1, << >>, << >>)
        /\ \A k \in DOMAIN tokens :
              /\ tokens[k] # << >>
              /\ \A j \in DOMAIN tokens[k] : is_lowercase_alphanumeric(tokens[k][j])
        /\ text = HelloWorld =>
              tokens = << << "h", "e", "l", "l", "o" >>,
                          << "w", "o", "r", "l", "d" >>,
                          << "1", "2", "3" >> >>
        /\ (\A j \in DOMAIN text : ~ is_alphanumeric(text[j])) => tokens = << >>

\* C5: a text with an uppercase letter, punctuation inside a word and a word
\* of punctuation alone has been tokenized, with a term returned twice.
C5_Witness ==
    /\ pc = "tokenized"
    /\ Len(split_whitespace(text)) > Len(tokens)
    /\ \E j \in DOMAIN text : text[j] = "A"
    /\ \E j \in DOMAIN text : text[j] = "," /\ j > 1 /\ is_alphanumeric(text[j - 1])
    /\ Len(tokens) = 3
    /\ tokens[1] = tokens[2]
    /\ tokens[3] = << "i" >>

\* C7: the tokens of a text, joined with a whitespace character and
\* tokenized again, are the same sequence of tokens.
C7_Idempotent == pc = "tokenized" => retokens = tokens

\* C7: the second call has returned, for a text that is not its own
\* normalized form and has more than one token.
C7_Witness ==
    /\ pc = "tokenized"
    /\ Len(tokens) >= 2
    /\ text # join(tokens, << " " >>)
    /\ \E j \in DOMAIN text : text[j] = I_DOT


\* x >= y for two scores
score_geq(x, y) == partial_cmp(x, y) \in { "Greater", "Equal" }

\* The block printed for document d is a ranking of the score table of d.
is_ranking(d) ==
    LET rows == report[d].rows
        table == tfidf_scores[d]
    IN  /\ \A i \in 1..(Len(rows) - 1) : score_geq(rows[i][2], rows[i + 1][2])
        /\ Len(rows) = Min(TopK, Cardinality(DOMAIN calculator.term_frequencies[d]))
        /\ \A i \in DOMAIN rows :
              /\ rows[i][1] \in DOMAIN table
              /\ rows[i][2] = table[rows[i][1]]
        /\ \A i, j \in DOMAIN rows : i # j => rows[i][1] # rows[j][1]

\* C6: every printed ranking is sorted non-increasing by score, has
\* min(10, distinct terms of the document) rows, holds only (term, score)
\* pairs of the document's score table, none of them twice; and printing
\* leaves the score tables as they are.
C6_Ranking ==
    /\ [](\A d \in DOMAIN report : is_ranking(d))
    /\ [][pc = "report" => tfidf_scores' = tfidf_scores]_vars

\* C6: a ranking of 10 rows of a document of more than 10 terms, all rows
\* above a term left out, and a ranking whose first row is above its last.
C6_Witness ==
    /\ \E d \in DOMAIN report :
          /\ Len(report[d].rows) = TopK
          /\ \E t \in DOMAIN tfidf_scores[d] :
                partial_cmp(report[d].rows[TopK][2], tfidf_scores[d][t]) = "Greater"
    /\ \E d \in DOMAIN report :
          /\ Len(report[d].rows) >= 2
          /\ partial_cmp(report[d].rows[1][2],
                         report[d].rows[Len(report[d].rows)][2]) = "Greater"

\* C8: main calls calculate_tfidf only when every line is read and the last
\* partial document is ingested, and from then on the calculator is never
\* modified and no process_document call is made; the summary counts are
\* those of that calculator.
C8_TwoPhase ==
    /\ [](pc # "read" =>
            /\ next_line = Len(lines) + 1
            /\ current_document # << >> =>
                  /\ ingested # << >>
                  /\ ingested[Len(ingested)] = current_document
            /\ Len(ingested) = calculator.n_documents)
    /\ [](pc = "done" =>
            /\ summary[1].documents = Len(calculator.term_frequencies)
            /\ summary[1].unique_terms = Cardinality(all_terms))
    /\ [][pc # "read" =>
            /\ calculator' = calculator
            /\ ingested' = ingested
            /\ pc' # "read"]_vars

\* C8: main is done on an input whose last document is a partial one, with
\* scores of two or more documents.
C8_Witness ==
    /\ pc = "done"
    /\ current_document # << >>
    /\ Len(tfidf_scores) >= 2
    /\ Len(lines) >= 3

\* The term-frequency table of a text: the number of occurrences of every
\* token.
count_table(txt) ==
    LET toks == tokenize(txt)
    IN  [ t \in Range(toks) |-> Cardinality({ i \in DOMAIN toks : toks[i] = t }) ]

\* C9: every process_document call appends one table to term_frequencies and
\* adds 1 to n_documents, keeps the tables stored before and lowers no
\* document_frequency entry; term_frequencies has n_documents tables and the
\* k-th is the table of the k-th text ingested.
C9_AppendOnly ==
    /\ [](/\ Len(calculator.term_frequencies) = calculator.n_documents
          /\ Len(ingested) = calculator.n_documents
          /\ \A k \in DOMAIN ingested :
                calculator.term_frequencies[k] = count_table(ingested[k]))
    /\ [][ingested' # ingested \/ calculator' # calculator =>
            /\ Len(ingested') = Len(ingested) + 1
            /\ calculator'.n_documents = calculator.n_documents + 1
            /\ Len(calculator'.term_frequencies) = Len(calculator.term_frequencies) + 1
            /\ \A k \in DOMAIN calculator.term_frequencies :
                  calculator'.term_frequencies[k] = calculator.term_frequencies[k]
            /\ \A t \in DOMAIN calculator.document_frequency :
                  /\ t \in DOMAIN calculator'.document_frequency
                  /\ calculator'.document_frequency[t]
                        >= calculator.document_frequency[t]]_vars

\* C9: three documents ingested, the second of them without any token.
C9_Witness ==
    /\ calculator.n_documents = 3
    /\ calculator.term_frequencies[1] # EmptyMap
    /\ calculator.term_frequencies[2] = EmptyMap
    /\ calculator.term_frequencies[3] # EmptyMap

\* C10: calculate_tfidf returns n_documents tables; the keys of the d-th are
\* the terms of document d; every df looked up is present and in
\* 1..n_documents; every score is a number >= 0, so that partial_cmp is never
\* None.
C10_Total ==
    pc = "scored" =>
        /\ Len(tfidf_scores) = calculator.n_documents
        /\ \A d \in DOMAIN tfidf_scores :
              /\ DOMAIN tfidf_scores[d] = DOMAIN calculator.term_frequencies[d]
              /\ \A t \in DOMAIN tfidf_scores[d] :
                    /\ t \in DOMAIN calculator.document_frequency
                    /\ calculator.document_frequency[t] >= 1
                    /\ calculator.document_frequency[t] <= calculator.n_documents
                    /\ tfidf_scores[d][t].kind = "ln"
                    /\ tfidf_scores[d][t].den >= 1
                    /\ tfidf_scores[d][t].num >= tfidf_scores[d][t].den
              /\ \A t, u \in DOMAIN tfidf_scores[d] :
                    partial_cmp(tfidf_scores[d][t], tfidf_scores[d][u]) # "None"

\* C10: scores of two or more documents, one of them without terms and one
\* of them without a term that another has.
C10_Witness ==
    /\ pc = "scored"
    /\ Len(tfidf_scores) >= 2
    /\ \E d \in DOMAIN tfidf_scores : DOMAIN tfidf_scores[d] = { }
    /\ \E d, e \in DOMAIN tfidf_scores :
          /\ DOMAIN tfidf_scores[d] # { }
          /\ DOMAIN tfidf_scores[e] \ DOMAIN tfidf_scores[d] # { }

=============================================================================
